---- MODULE Spec2Model ----
(***************************************************************************)
(* Model of src/app.py: the three-bucket retirement simulation that runs   *)
(* when the "Run Simulation" button is pressed (lines 49-154).             *)
(*                                                                         *)
(* Number representation.  app.py computes in Python floats: every product *)
(* and quotient is rounded to the nearest representable value, sums and    *)
(* differences of the amounts at hand are (for the purposes here) exact.   *)
(* The model keeps that shape on a decimal grid: money is an integer       *)
(* number of 1/Unit rupee, a rate or factor is an integer number of 1/One, *)
(* and every product or quotient is rounded to the nearest grid point      *)
(* (FMul, RDiv).  Rounding to nearest keeps what the float operations      *)
(* keep: x * f >= x for f >= 1, x * f <= x for f <= 1, and a positive      *)
(* amount times 0.85 stays positive.                                       *)
(***************************************************************************)
EXTENDS Integers, Sequences, FiniteSets, TLC

\* ---------------------------------------------------------------------
\* Bounds of the model
\* ---------------------------------------------------------------------
\* largest life_expectancy - retirement_age explored
MaxYears == 7

\* ---------------------------------------------------------------------
\* Number grids
\* ---------------------------------------------------------------------
\* money grid: amounts are counted in 1/Unit rupee
Unit == 100
\* factor grid: rates and factors are counted in 1/One (0.06 is 60)
One == 1000

\* exhaustion_age = None (line 80); ages are >= 31, so -1 is no age
None == -1

Max(a, b) == IF a >= b THEN a ELSE b
Min(a, b) == IF a <= b THEN a ELSE b

\* a float product amount * factor, rounded to nearest
FMul(a, f) == (a * f + (One \div 2)) \div One

\* a float quotient amount / n (n a positive integer), rounded to nearest
RDiv(a, n) == (2 * a + n) \div (2 * n)

\* base ** n for a factor on the One grid
RECURSIVE Pow(_, _)
Pow(f, n) == IF n = 0 THEN One ELSE FMul(Pow(f, n - 1), f)

\* a rupee amount typed into a number_input, on the money grid
ToMoney(rupees) == rupees * Unit

\* ---------------------------------------------------------------------
\* Inputs (sidebar widgets, lines 17-42), drawn from small sets inside the
\* widgets' ranges
\* ---------------------------------------------------------------------
CurrentAges == {58, 59}
RetirementAges == {60}
LifeExpectancies(ra) == (ra + 1) .. (ra + MaxYears)
MonthlyExpenses == {0, 50}
MonthlyPensions == {0, 60, 100}
TotalCorpora == {0, 1, 1000, 5000}
Inflations == {60, 100}
Returns == {<<40, 60, 90>>, <<20, 40, 120>>}
CrashChoices == {"No Crash", "3 Years", "5 Years"}

VARIABLES
    current_age, retirement_age, life_expectancy,
    monthly_expense_today, inflation, monthly_pension, total_corpus,
    r1, r2, r3, crash_years, inflation_shock,
    annual_expense_base, annual_pension,
    b1, b2, b3, crash_duration, retirement_years,
    records, exhaustion_age, year,
    annual_expense, annual_gap,
    status, avg_annual_gap, additional_corpus_needed,
    pc

inputs == <<current_age, retirement_age, life_expectancy,
            monthly_expense_today, inflation, monthly_pension, total_corpus,
            r1, r2, r3, crash_years, inflation_shock>>
setup == <<annual_expense_base, annual_pension, crash_duration, retirement_years>>
buckets == <<b1, b2, b3>>
results == <<status, avg_annual_gap, additional_corpus_needed>>
vars == <<inputs, setup, buckets, records, exhaustion_age, year,
          annual_expense, annual_gap, results, pc>>

\* ---------------------------------------------------------------------
\* Pure parts of the year pipeline
\* ---------------------------------------------------------------------
crash_impact == 150

\* the bucket shares of lines 66-68
Share1 == 200
Share2 == 300
Share3 == 500

\* the +4% of the inflation shock and the number of years it lasts (line 84)
ShockDelta == 40
ShockYears == 5

CrashDuration(choice) ==
    IF choice = "3 Years" THEN 3
    ELSE IF choice = "5 Years" THEN 5
    ELSE 0

\* Infl with the shock window confused with the 3-year crash window
Infl_ShortShock(y, infl, shock) ==
    IF shock /\ y <= 3 THEN infl + ShockDelta ELSE infl

\* line 84
Infl(y, infl, shock) ==
    IF shock /\ y <= ShockYears THEN infl + ShockDelta ELSE infl

\* line 85
AnnualExpense(base, y, infl, shock) ==
    FMul(base, Pow(One + Infl(y, infl, shock), y - 1))

\* line 86
AnnualGap(expense, pension) == Max(0, expense - pension)

\* Cascade without the min() cap on the bucket 1 withdrawal
Cascade_Uncapped(x1, x2, x3, gap0) ==
    [b1 |-> x1 - gap0, b2 |-> x2, b3 |-> x3, gap |-> 0]

\* Cascade that forgets "annual_gap -= withdraw" after bucket 1
Cascade_NoGapUpdate(x1, x2, x3, gap0) ==
    LET withdraw == Min(x1, gap0)
        n1 == x1 - withdraw
        g1 == gap0
        refill2 == IF g1 > 0 /\ x2 > 0 THEN Min(x2, g1) ELSE 0
        n2 == x2 - refill2
        g2 == g1 - refill2
        refill3 == IF g2 > 0 /\ x3 > 0 THEN Min(x3, g2) ELSE 0
        n3 == x3 - refill3
        g3 == g2 - refill3
    IN  [b1 |-> n1, b2 |-> n2, b3 |-> n3, gap |-> g3]

\* Cascade in which "refill" is a transfer into the bucket above
Cascade_Refill(x1, x2, x3, gap0) ==
    LET withdraw == Min(x1, gap0)
        g1 == gap0 - withdraw
        refill2 == IF g1 > 0 /\ x2 > 0 THEN Min(x2, g1) ELSE 0
        n1 == x1 - withdraw + refill2
        refill3 == IF g1 > 0 /\ x3 > 0 THEN Min(x3, g1) ELSE 0
        n2 == x2 - refill2 + refill3
        n3 == x3 - refill3
    IN  [b1 |-> n1, b2 |-> n2, b3 |-> n3, gap |-> g1]

\* lines 89-101: the withdrawal cascade; gap is the residual annual_gap
Cascade(x1, x2, x3, gap0) ==
    LET withdraw == Min(x1, gap0)
        n1 == x1 - withdraw
        g1 == gap0 - withdraw
        refill2 == IF g1 > 0 /\ x2 > 0 THEN Min(x2, g1) ELSE 0
        n2 == x2 - refill2
        g2 == g1 - refill2
        refill3 == IF g2 > 0 /\ x3 > 0 THEN Min(x3, g2) ELSE 0
        n3 == x3 - refill3
        g3 == g2 - refill3
    IN  [b1 |-> n1, b2 |-> n2, b3 |-> n3, gap |-> g3]

\* CrashApplies with the last crash year left out
CrashApplies_Strict(y, dur) == y < dur

\* line 104
CrashApplies(y, dur) == y <= dur

\* line 105
Crashed(x3) == FMul(x3, One - crash_impact)

\* lines 108-110
Grown(x, r) == FMul(x, One + r)

\* Total that leaves the growth bucket out
Total_WithoutGrowth(x1, x2, x3) == x1 + x2

\* line 112
Total(x1, x2, x3) == x1 + x2 + x3

\* Exhausted that misses a total of exactly zero
Exhausted_Strict(total, exh) == total < 0 /\ exh = None

\* line 117
Exhausted(total, exh) == total <= 0 /\ exh = None

\* InRange for range(1, retirement_years)
InRange_OffByOne(y, n) == y < n

\* line 82: range(1, retirement_years + 1) still has the value y
InRange(y, n) == y <= n

\* Python truth value of exhaustion_age (line 152)
Truthy(x) == x /= None /\ x /= 0

\* StatusOf with > for >=
StatusOf_Strict(exh, le) ==
    IF exh = None THEN "GREEN"
    ELSE IF exh > le - 3 THEN "AMBER"
    ELSE "RED"

\* lines 136-141
StatusOf(exh, le) ==
    IF exh = None THEN "GREEN"
    ELSE IF exh >= le - 3 THEN "AMBER"
    ELSE "RED"

RECURSIVE SumMonthly(_)
SumMonthly(rs) ==
    IF rs = <<>> THEN 0 ELSE rs[1].monthly + SumMonthly(Tail(rs))

\* df["Monthly Expense (Inflation Adjusted)"].mean() (line 148)
MeanMonthly(rs) == RDiv(SumMonthly(rs), Len(rs))

\* lines 146-149; the mean of no rows is NaN and max(0, NaN) is 0
AvgAnnualGap(rs, pension) ==
    IF rs = <<>> THEN 0 ELSE Max(0, MeanMonthly(rs) * 12 - pension)

\* AdditionalCorpusNeeded that does not count the exhaustion year
AdditionalCorpusNeeded_OffByOne(exh, le, gap) ==
    IF Truthy(exh) THEN gap * (le - exh - 1) ELSE 0

\* lines 151-154
AdditionalCorpusNeeded(exh, le, gap) ==
    IF Truthy(exh) THEN gap * (le - exh) ELSE 0

\* ---------------------------------------------------------------------
\* Initial state: the widgets hold their values and the button is pressed
\* ---------------------------------------------------------------------
Init ==
    /\ current_age \in CurrentAges
    /\ retirement_age \in {ra \in RetirementAges : ra >= current_age + 1}
    /\ life_expectancy \in LifeExpectancies(retirement_age)
    /\ monthly_expense_today \in MonthlyExpenses
    /\ inflation \in Inflations
    /\ monthly_pension \in MonthlyPensions
    /\ total_corpus \in TotalCorpora
    /\ \E rr \in Returns : r1 = rr[1] /\ r2 = rr[2] /\ r3 = rr[3]
    /\ crash_years \in CrashChoices
    /\ inflation_shock \in BOOLEAN
    /\ annual_expense_base = 0
    /\ annual_pension = 0
    /\ b1 = 0 /\ b2 = 0 /\ b3 = 0
    /\ crash_duration = 0
    /\ retirement_years = 0
    /\ records = <<>>
    /\ exhaustion_age = None
    /\ year = 0
    /\ annual_expense = 0
    /\ annual_gap = 0
    /\ status = "-"
    /\ avg_annual_gap = 0
    /\ additional_corpus_needed = 0
    /\ pc = "setup"

\* lines 51-80
Setup ==
    /\ pc = "setup"
    /\ LET years_to_retirement == retirement_age - current_age
           monthly_expense_retirement ==
               FMul(ToMoney(monthly_expense_today),
                    Pow(One + inflation, years_to_retirement))
       IN  annual_expense_base' = monthly_expense_retirement * 12
    /\ annual_pension' = ToMoney(monthly_pension) * 12
    /\ b1' = FMul(ToMoney(total_corpus), Share1)
    /\ b2' = FMul(ToMoney(total_corpus), Share2)
    /\ b3' = FMul(ToMoney(total_corpus), Share3)
    /\ crash_duration' = CrashDuration(crash_years)
    /\ retirement_years' = life_expectancy - retirement_age
    /\ records' = <<>>
    /\ exhaustion_age' = None
    /\ pc' = "for"
    /\ UNCHANGED <<inputs, year, annual_expense, annual_gap, results>>

\* line 82: the loop header takes the next year or leaves the loop
ForYear ==
    /\ pc = "for"
    /\ IF InRange(year + 1, retirement_years)
       THEN year' = year + 1 /\ pc' = "withdraw"
       ELSE year' = year /\ pc' = "classify"
    /\ UNCHANGED <<inputs, setup, buckets, records, exhaustion_age,
                   annual_expense, annual_gap, results>>

\* lines 84-101
Withdraw ==
    /\ pc = "withdraw"
    /\ LET expense == AnnualExpense(annual_expense_base, year, inflation,
                                    inflation_shock)
           c == Cascade(b1, b2, b3, AnnualGap(expense, annual_pension))
       IN  /\ annual_expense' = expense
           /\ b1' = c.b1
           /\ b2' = c.b2
           /\ b3' = c.b3
           /\ annual_gap' = c.gap
    /\ pc' = "crash"
    /\ UNCHANGED <<inputs, setup, records, exhaustion_age, year, results>>

\* lines 103-105
Crash ==
    /\ pc = "crash"
    /\ b3' = IF CrashApplies(year, crash_duration) THEN Crashed(b3) ELSE b3
    /\ pc' = "growth"
    /\ UNCHANGED <<inputs, setup, b1, b2, records, exhaustion_age, year,
                   annual_expense, annual_gap, results>>

\* lines 107-110
Growth ==
    /\ pc = "growth"
    /\ b1' = Grown(b1, r1)
    /\ b2' = Grown(b2, r2)
    /\ b3' = Grown(b3, r3)
    /\ pc' = "record"
    /\ UNCHANGED <<inputs, setup, records, exhaustion_age, year,
                   annual_expense, annual_gap, results>>

\* lines 112-119
Record ==
    /\ pc = "record"
    /\ LET total == Total(b1, b2, b3)
           age == retirement_age + year - 1
       IN  /\ records' = Append(records,
                   [age |-> age, monthly |-> RDiv(annual_expense, 12),
                    b1 |-> b1, b2 |-> b2, b3 |-> b3, total |-> total])
           /\ IF Exhausted(total, exhaustion_age)
              THEN exhaustion_age' = age /\ pc' = "classify"
              ELSE exhaustion_age' = exhaustion_age /\ pc' = "for"
    /\ UNCHANGED <<inputs, setup, buckets, year, annual_expense, annual_gap,
                   results>>

\* lines 136-154
Classify ==
    /\ pc = "classify"
    /\ status' = StatusOf(exhaustion_age, life_expectancy)
    /\ avg_annual_gap' = AvgAnnualGap(records, annual_pension)
    /\ additional_corpus_needed' =
           AdditionalCorpusNeeded(exhaustion_age, life_expectancy,
                                  AvgAnnualGap(records, annual_pension))
    /\ pc' = "done"
    /\ UNCHANGED <<inputs, setup, buckets, records, exhaustion_age, year,
                   annual_expense, annual_gap>>

Next ==
    \/ Setup
    \/ ForYear
    \/ Withdraw
    \/ Crash
    \/ Growth
    \/ Record
    \/ Classify

Spec == Init /\ [][Next]_vars

\* the script runs to its end: no step waits for anything
FairSpec == Spec /\ WF_vars(Next)

TypeOK ==
    /\ pc \in {"setup", "for", "withdraw", "crash", "growth", "record",
               "classify", "done"}
    /\ year \in 0 .. MaxYears + 1
    /\ Len(records) <= MaxYears + 1

\* ---------------------------------------------------------------------
\* Properties
\* ---------------------------------------------------------------------
Recs == 1 .. Len(records)
AllZero(x1, x2, x3) == x1 = 0 /\ x2 = 0 /\ x3 = 0

\* the expense and the full gap of simulated year y, before any withdrawal
YearExpense(y) ==
    FMul(annual_expense_base,
         Pow(One + (IF inflation_shock /\ y <= 5
                    THEN inflation + 40 ELSE inflation), y - 1))
YearGap(y) == Max(0, YearExpense(y) - annual_pension)

\* C1: the three balances are never negative: not after the allocation, not
\* after the withdrawal step, not after the crash step, not after
\* compounding, and not in any YearRecord.
C1_BucketsNonNegative ==
    /\ b1 >= 0 /\ b2 >= 0 /\ b3 >= 0
    /\ \A i \in Recs :
          records[i].b1 >= 0 /\ records[i].b2 >= 0 /\ records[i].b3 >= 0

\* a withdrawal has emptied bucket 1 and bitten into bucket 2, in a crash year
C1_Witness ==
    /\ pc = "growth"
    /\ year <= crash_duration
    /\ b1 = 0 /\ b2 > 0 /\ b3 > 0
    /\ b2 < FMul(ToMoney(total_corpus), 300)

\* C2: once exhaustionAge is set it is the age of the first record whose
\* total is <= 0, that record is the last one and every earlier record has
\* total > 0; while it is not set no record has total <= 0.
C2_ExhaustionIsFirstAndLast ==
    IF exhaustion_age /= None
    THEN /\ Len(records) >= 1
         /\ records[Len(records)].age = exhaustion_age
         /\ records[Len(records)].total <= 0
         /\ \A i \in 1 .. Len(records) - 1 : records[i].total > 0
         /\ pc \in {"classify", "done"}
    ELSE \A i \in Recs : records[i].total > 0

\* a run that ended by exhaustion in its third year or later
C2_Witness ==
    /\ pc = "done"
    /\ exhaustion_age /= None
    /\ Len(records) >= 3

\* C3 as stated: at the end of a run additionalCorpusNeeded is zero if and
\* only if exhaustionAge is null.
C3_Original ==
    pc = "done" => (additional_corpus_needed = 0 <=> exhaustion_age = None)

\* C3 as amended: at the end of a run additionalCorpusNeeded is
\* avgAnnualGap * (lifeExpectancy - exhaustionAge) when exhaustion was
\* recorded and zero otherwise, so it is zero if and only if exhaustionAge
\* is null or the average annual gap is zero.
C3_Amended ==
    pc = "done" =>
        /\ additional_corpus_needed = 0
              <=> (exhaustion_age = None \/ avg_annual_gap = 0)
        /\ exhaustion_age /= None =>
              additional_corpus_needed
                  = avg_annual_gap * (life_expectancy - exhaustion_age)
        /\ avg_annual_gap >= 0

\* an exhausted run with a positive recommendation
C3_Witness ==
    /\ pc = "done"
    /\ exhaustion_age /= None
    /\ additional_corpus_needed > 0
    /\ Len(records) >= 2

\* C4: the health status is GREEN exactly when no exhaustion was recorded,
\* AMBER exactly when it was recorded at an age >= lifeExpectancy - 3 and RED
\* exactly when it was recorded at an age < lifeExpectancy - 3.
C4_StatusFromExhaustion ==
    pc = "done" =>
        /\ status \in {"GREEN", "AMBER", "RED"}
        /\ status = "GREEN" <=> exhaustion_age = None
        /\ status = "AMBER" <=>
              (exhaustion_age /= None
                  /\ exhaustion_age >= life_expectancy - 3)
        /\ status = "RED" <=>
              (exhaustion_age /= None
                  /\ exhaustion_age < life_expectancy - 3)

\* exhaustion exactly on the AMBER boundary
C4_Witness ==
    /\ pc = "done"
    /\ status = "AMBER"
    /\ exhaustion_age = life_expectancy - 3

\* C5 as stated: the expense never decreases from one simulated year to the
\* next, shock or no shock.
C5_Original ==
    \A i \in 1 .. Len(records) - 1 :
        /\ records[i + 1].monthly >= records[i].monthly
        /\ YearExpense(i + 1) >= YearExpense(i)

\* C5 as amended: the expense never decreases from one simulated year to
\* the next, except from year 5 to year 6 of a run with the inflation shock.
C5_Amended ==
    \A i \in 1 .. Len(records) - 1 :
        (~inflation_shock \/ i /= 5) =>
            /\ records[i + 1].monthly >= records[i].monthly
            /\ YearExpense(i + 1) >= YearExpense(i)

\* a shock run with a positive expense that went past the end of the shock
C5_Witness ==
    /\ inflation_shock
    /\ Len(records) >= 7
    /\ records[1].monthly > 0
    /\ records[5].monthly > records[4].monthly
    /\ records[7].monthly > records[6].monthly

\* C6: the loop always terminates; a run without exhaustion has exactly
\* lifeExpectancy - retirementAge records, with the ages retirementAge,
\* retirementAge + 1, ..., lifeExpectancy - 1 in order; a run with
\* exhaustion has at most that many.
C6_RecordCount ==
    /\ Len(records) <= life_expectancy - retirement_age
    /\ \A i \in Recs : records[i].age = retirement_age + i - 1
    /\ pc = "done" /\ exhaustion_age = None =>
          /\ Len(records) = life_expectancy - retirement_age
          /\ records[Len(records)].age = life_expectancy - 1

C6_Terminates == []C6_RecordCount /\ <>(pc = "done")

\* a run of the longest horizon that was never exhausted
C6_Witness ==
    /\ pc = "done"
    /\ exhaustion_age = None
    /\ Len(records) = MaxYears
    /\ life_expectancy - retirement_age = MaxYears

\* C7: the crash step comes after the year's withdrawals and before its
\* compounding; in a year <= crashDurationYears it multiplies b3 once by
\* (1 - crashImpact), in any other year it leaves b3 alone, and it never
\* changes b1 or b2; compounding multiplies b3 by (1 + r3) and nothing else.
C7_Step ==
    /\ pc = "withdraw" => pc' = "crash" /\ year' = year
    /\ pc = "crash" =>
          /\ pc' = "growth" /\ year' = year
          /\ b1' = b1 /\ b2' = b2
          /\ b3' = IF year <= crash_duration
                   THEN FMul(b3, One - 150) ELSE b3
    /\ pc = "growth" =>
          /\ pc' = "record" /\ year' = year
          /\ b3' = FMul(b3, One + r3)

C7_CrashOnlyGrowthBucket == [][C7_Step]_vars

\* the crash step has just run in a crash year on three positive buckets
C7_Witness ==
    /\ pc = "growth"
    /\ year <= crash_duration
    /\ year >= 2
    /\ b1 > 0 /\ b2 > 0 /\ b3 > 0

\* C8: the withdrawal step takes min(gap, b1 + b2 + b3) in total; bucket 1
\* gives min(b1, gap); bucket 2 is reduced only if bucket 1 ends at zero,
\* bucket 3 only if buckets 1 and 2 end at zero; what is left of the gap
\* is dropped: the next year's gap is that year's expense minus the
\* pension again, and no balance goes below zero.
C8_Step ==
    pc = "withdraw" =>
        LET gap0 == YearGap(year)
            sum == b1 + b2 + b3
        IN  /\ sum - (b1' + b2' + b3') = Min(gap0, sum)
            /\ b1 - b1' = Min(b1, gap0)
            /\ b2' <= b2 /\ b3' <= b3
            /\ b2' < b2 => b1' = 0
            /\ b3' < b3 => b1' = 0 /\ b2' = 0
            /\ b1' >= 0 /\ b2' >= 0 /\ b3' >= 0
            /\ annual_gap' = gap0 - Min(gap0, sum)

C8_WithdrawalCascade == [][C8_Step]_vars

\* a withdrawal that emptied all three buckets and left part of the gap
\* unmet, in a run that started with money
C8_Witness ==
    /\ pc = "crash"
    /\ total_corpus > 0
    /\ annual_gap > 0
    /\ AllZero(b1, b2, b3)

\* C9: exhaustion is recorded in a year if and only if the three buckets
\* are all zero after that year's withdrawal step, which is the case if
\* and only if the year's gap is at least the sum of the balances the year
\* started with.
C9_Step ==
    /\ pc = "withdraw" =>
          (AllZero(b1', b2', b3') <=> YearGap(year) >= b1 + b2 + b3)
    /\ pc \in {"crash", "growth"} =>
          (AllZero(b1', b2', b3') <=> AllZero(b1, b2, b3))
    /\ pc = "record" =>
          /\ exhaustion_age = None
          /\ exhaustion_age' /= None <=> AllZero(b1, b2, b3)
          /\ exhaustion_age' /= None =>
                exhaustion_age' = retirement_age + year - 1

C9_ExhaustionIffEmptied == [][C9_Step]_vars

\* a run that started with money and recorded exhaustion after its first
\* year
C9_Witness ==
    /\ pc = "classify"
    /\ total_corpus > 0
    /\ exhaustion_age /= None
    /\ exhaustion_age > retirement_age

\* C10: no step moves money into a bucket: the withdrawal step and the
\* crash step never raise a balance, and a bucket that is zero in one
\* YearRecord is zero in every later one.
C10_Step ==
    pc \in {"withdraw", "crash"} =>
        b1' <= b1 /\ b2' <= b2 /\ b3' <= b3

C10_Records ==
    \A i \in Recs : \A j \in Recs :
        i < j =>
            /\ records[i].b1 = 0 => records[j].b1 = 0
            /\ records[i].b2 = 0 => records[j].b2 = 0
            /\ records[i].b3 = 0 => records[j].b3 = 0

C10_NoRefill == []C10_Records /\ [][C10_Step]_vars

\* bucket 1 stayed empty for two records while buckets 2 and 3 had money
C10_Witness ==
    /\ Len(records) >= 2
    /\ records[Len(records) - 1].b1 = 0
    /\ records[Len(records)].b1 = 0
    /\ records[Len(records)].b2 > 0
    /\ records[Len(records)].b3 > 0
====
